---- MODULE Spec2Model ----
(***************************************************************************)
(* A model of the zkrag retrieval engine: DocumentManager (content         *)
(* addressing, chunking, commitment), VectorStore (cosine top-k search)    *)
(* and PrivateRAG (ingest, index, query, optional proof).                  *)
(***************************************************************************)
EXTENDS Integers, Sequences, FiniteSets, TLC

\* ------------------------------------------------------------------ bounds
MaxContentLen == 1   \* longest document content, in characters
MaxDocs == 2         \* most distinct documents held by one DocumentManager
MaxFiles == 2        \* most *.txt files in a directory given to load_documents
MaxTopK == 2         \* largest top_k passed to search / query
MaxIndex == 3        \* most documents of an indexed pipeline that is searched
MaxChunkSize == 4    \* largest chunk_size / overlap passed to _chunk_document
MaxTextLen == 6      \* longest text chunked with a non-default configuration
MaxChunks == 6       \* most loop iterations of _chunk_document that are followed
MaxTime == 1         \* latest time.time() of a query

\* ------------------------------------------------------- program constants
DEFAULT_CHUNK_SIZE == 512
DEFAULT_OVERLAP == 50
DOC_ID_LEN == 16
PLACEHOLDER_LEN == 256

\* A Python str is a TLA+ string; characters are its substrings of length 1.
Alphabet == {"a", "b"}

RECURSIVE Texts(_)
Texts(n) ==
    IF n = 0 THEN {""}
    ELSE Texts(n - 1) \cup {t \o c : t \in Texts(n - 1), c \in Alphabet}

Contents == Texts(MaxContentLen)

min(a, b) == IF a < b THEN a ELSE b

max(a, b) == IF a > b THEN a ELSE b

\* Python's s[start:end] on a str or a list, negative indices counted from
\* the end.
PySlice(s, start, end) ==
    LET n == Len(s)
        lo == IF start < 0 THEN max(start + n, 0) ELSE min(start, n)
        hi == IF end < 0 THEN max(end + n, 0) ELSE min(end, n)
    IN  SubSeq(s, lo + 1, max(lo, hi))

CharAt(s, i) == SubSeq(s, i, i)

\* ---------------------------------------------------------------- hashing
HexChars == "0123456789abcdef"

\* A function as an explicit table, so that it is evaluated once.
Table(f) == f @@ <<>>

\* ord(c) of the characters that occur: '0'..'9' are 48..57, 'a'..'f' 97..102.
OrdTable ==
    Table([c \in {CharAt(HexChars, i) : i \in 1..16} |->
            LET d == CHOOSE i \in 1..16 : CharAt(HexChars, i) = c
            IN  IF d <= 10 THEN 47 + d ELSE 86 + d])

ord(c) == OrdTable[c]

\* str.encode(): the UTF-8 bytes, one per ASCII character, by halves (keeps
\* the evaluation shallow).
RECURSIVE EncodeRange(_, _, _)
EncodeRange(s, lo, hi) ==
    IF lo > hi THEN <<>>
    ELSE IF lo = hi THEN <<ord(CharAt(s, lo))>>
    ELSE LET mid == (lo + hi) \div 2
         IN  EncodeRange(s, lo, mid) \o EncodeRange(s, mid + 1, hi)

encode(s) == EncodeRange(s, 1, Len(s))

\* hashlib.sha256 is modelled by a polynomial digest of the bytes,
\*   h(b1 .. bn) = 7 * 31^n + (b1 + 1) * 31^(n-1) + ... + (bn + 1)  mod 32749,
\* rendered as 64 lower-case hex characters like hexdigest().  It is
\* deterministic, depends on the order of the bytes, and is collision free
\* on the contents of the model, also in its first DOC_ID_LEN characters.
\* [h, pow]: the digest of two adjacent byte ranges from the digests of each.
Combine(l, r) == [h |-> (l.h * r.pow + r.h) % 32749, pow |-> (l.pow * r.pow) % 32749]

RECURSIVE Absorb(_, _, _)
Absorb(bytes, lo, hi) ==
    IF lo > hi THEN [h |-> 0, pow |-> 1]
    ELSE IF lo = hi THEN [h |-> bytes[lo] + 1, pow |-> 31]
    ELSE Combine(Absorb(bytes, lo, (lo + hi) \div 2),
                 Absorb(bytes, (lo + hi) \div 2 + 1, hi))

Digest(bytes) == Combine([h |-> 7, pow |-> 1], Absorb(bytes, 1, Len(bytes))).h

\* Hex digit k (0 = most significant) of the 16-bit word w.
HexDigit(w, k) ==
    IF k = 0 THEN w \div 4096
    ELSE IF k = 1 THEN (w \div 256) % 16
    ELSE IF k = 2 THEN (w \div 16) % 16
    ELSE w % 16

\* Characters lo..hi (from 0) of the hex rendering of the digest word g: the
\* 16 words g, 3g, 5g, ... mod 2^16, four hex characters each.
RECURSIVE HexRange(_, _, _)
HexRange(g, lo, hi) ==
    IF lo = hi
    THEN CharAt(HexChars, 1 + HexDigit((g * (2 * (lo \div 4) + 1)) % 65536, lo % 4))
    ELSE HexRange(g, lo, (lo + hi) \div 2) \o HexRange(g, (lo + hi) \div 2 + 1, hi)

sha256_hexdigest(bytes) == HexRange((Digest(bytes) * 25173) % 65536, 0, 63)

\* Python's < on str: lexicographic by code point, a proper prefix is smaller.
\* The first position from i on where a and b differ, or 0 when one of them
\* ends before that.
RECURSIVE FirstDiff(_, _, _)
FirstDiff(a, b, i) ==
    IF i > Len(a) \/ i > Len(b) THEN 0
    ELSE IF CharAt(a, i) # CharAt(b, i) THEN i
    ELSE FirstDiff(a, b, i + 1)

StrLessAt(a, b, i) ==
    IF i = 0 THEN Len(a) < Len(b) ELSE ord(CharAt(a, i)) < ord(CharAt(b, i))

StrLess(a, b) == StrLessAt(a, b, FirstDiff(a, b, 1))

RECURSIVE InsertSorted(_, _)
InsertSorted(x, s) ==
    IF s = <<>> THEN <<x>>
    ELSE IF StrLess(x, Head(s)) THEN <<x>> \o s
    ELSE <<Head(s)>> \o InsertSorted(x, Tail(s))

\* sorted(list of str): ascending, duplicates kept.
RECURSIVE sorted(_)
sorted(s) == IF s = <<>> THEN <<>> ELSE InsertSorted(Head(s), sorted(Tail(s)))

\* "".join(list of str)
RECURSIVE join(_)
join(s) == IF s = <<>> THEN "" ELSE Head(s) \o join(Tail(s))

\* The concatenation of a list of lists (list.extend in a loop).
RECURSIVE Flatten(_)
Flatten(s) == IF s = <<>> THEN <<>> ELSE Head(s) \o Flatten(Tail(s))

\* ------------------------------------------------------------------ dicts
\* A Python dict is a sequence of [key, val] entries in insertion order;
\* assigning to an existing key keeps the key's position.
DictKeys(d) == [i \in 1..Len(d) |-> d[i].key]

DictValues(d) == [i \in 1..Len(d) |-> d[i].val]

DictHas(d, k) == \E i \in 1..Len(d) : d[i].key = k

DictGet(d, k) == d[CHOOSE i \in 1..Len(d) : d[i].key = k].val

DictSet(d, k, v) ==
    IF DictHas(d, k)
    THEN [i \in 1..Len(d) |-> IF d[i].key = k THEN [key |-> k, val |-> v] ELSE d[i]]
    ELSE Append(d, [key |-> k, val |-> v])

\* -------------------------------------------------------- DocumentManager
\* A DocumentManager is [documents |-> dict, chunks |-> dict].
NewDocumentManager == [documents |-> <<>>, chunks |-> <<>>]

\* The loop body moving start to end - overlap also after the last window.
ChunkBodyAlwaysOverlap(doc_id, content, chunk_size, overlap, st) ==
    LET end == min(st.start + chunk_size, Len(content))
        chunk == [doc_id |-> doc_id, chunk_id |-> st.chunk_id,
                  content |-> PySlice(content, st.start, end),
                  start_idx |-> st.start, end_idx |-> end]
    IN  [start |-> end - overlap,
         chunk_id |-> st.chunk_id + 1,
         chunks |-> Append(st.chunks, chunk)]

\* The loop body with end = start + chunk_size, not clamped to len(content).
ChunkBodyNoClamp(doc_id, content, chunk_size, overlap, st) ==
    LET end == st.start + chunk_size
        chunk == [doc_id |-> doc_id, chunk_id |-> st.chunk_id,
                  content |-> PySlice(content, st.start, end),
                  start_idx |-> st.start, end_idx |-> end]
    IN  [start |-> IF end < Len(content) THEN end - overlap ELSE end,
         chunk_id |-> st.chunk_id + 1,
         chunks |-> Append(st.chunks, chunk)]

\* One iteration of the while loop of _chunk_document on the loop state
\* [start, chunk_id, chunks].
ChunkBody(doc_id, content, chunk_size, overlap, st) ==
    LET end == min(st.start + chunk_size, Len(content))
        chunk == [doc_id |-> doc_id, chunk_id |-> st.chunk_id,
                  content |-> PySlice(content, st.start, end),
                  start_idx |-> st.start, end_idx |-> end]
    IN  [start |-> IF end < Len(content) THEN end - overlap ELSE end,
         chunk_id |-> st.chunk_id + 1,
         chunks |-> Append(st.chunks, chunk)]

\* The loop running once more when start has reached len(content).
LoopConditionInclusive(content, st) == st.start <= Len(content)

\* while start < len(content)
LoopCondition(content, st) == st.start < Len(content)

RECURSIVE ChunkLoop(_, _, _, _, _)
ChunkLoop(doc_id, content, chunk_size, overlap, st) ==
    IF LoopCondition(content, st)
    THEN ChunkLoop(doc_id, content, chunk_size, overlap,
                   ChunkBody(doc_id, content, chunk_size, overlap, st))
    ELSE st.chunks

\* self.chunks[doc.id] extended with the new chunks instead of replaced.
ExtendChunks(dm, doc_id, chunks) ==
    [dm EXCEPT !.chunks =
        DictSet(dm.chunks, doc_id,
                (IF DictHas(dm.chunks, doc_id) THEN DictGet(dm.chunks, doc_id) ELSE <<>>)
                    \o chunks)]

StoreChunks(dm, doc_id, chunks) ==
    [dm EXCEPT !.chunks = DictSet(dm.chunks, doc_id, chunks)]

_chunk_document(dm, doc, chunk_size, overlap) ==
    StoreChunks(dm, doc.id,
                ChunkLoop(doc.id, doc.content, chunk_size, overlap,
                          [start |-> 0, chunk_id |-> 0, chunks |-> <<>>]))

DocId(doc_hash) == PySlice(doc_hash, 0, DOC_ID_LEN)

\* "b" * n, by halves.
RECURSIVE Bs(_)
Bs(n) ==
    IF n = 0 THEN ""
    ELSE IF n = 1 THEN "b"
    ELSE Bs(n \div 2) \o Bs(n - n \div 2)

\* The documents of a hand-indexed pipeline: "b", "bb", ..., one chunk each.
Corpus == {Bs(i) : i \in 1..MaxIndex}

\* hashlib.sha256(content.encode()).hexdigest() of every content of the model,
\* evaluated once.
ContentHash == Table([c \in Contents \cup Corpus |-> sha256_hexdigest(encode(c))])

\* An Optional[Dict] argument: None, or a dict given by its keys.
None == [is_none |-> TRUE]

Dict(keys) == [is_none |-> FALSE, keys |-> keys]

EmptyDict == Dict({})

\* DocumentManager.add_document: the manager afterwards and the returned id.
\* Document(id, content, metadata, hash)
Document(doc_id, content, metadata, doc_hash) ==
    [id |-> doc_id, content |-> content, metadata |-> metadata, hash |-> doc_hash]

StoreDocument(dm, doc) ==
    [dm |-> _chunk_document([dm EXCEPT !.documents = DictSet(dm.documents, doc.id, doc)],
                            doc, DEFAULT_CHUNK_SIZE, DEFAULT_OVERLAP),
     doc_id |-> doc.id]

DM_add_document(dm, content, metadata) ==
    StoreDocument(dm, Document(DocId(ContentHash[content]), content,
                               IF metadata.is_none THEN EmptyDict ELSE metadata,
                               ContentHash[content]))

\* Optional[Document]: <<>> is None, <<doc>> a document.
get_document(dm, doc_id) ==
    IF DictHas(dm.documents, doc_id) THEN <<DictGet(dm.documents, doc_id)>> ELSE <<>>

get_chunks(dm, doc_id) ==
    IF DictHas(dm.chunks, doc_id) THEN DictGet(dm.chunks, doc_id) ELSE <<>>

get_all_chunks(dm) == Flatten(DictValues(dm.chunks))

DocHashes(dm) == [i \in 1..Len(dm.documents) |-> dm.documents[i].val.hash]

\* The hashes in insertion order, sorted() left out.
InsertionOrder(hashes) == hashes

CommitmentOrder(hashes) == sorted(hashes)

\* The lists of hashes of distinct documents a manager of the model can hold.
HashLists ==
    UNION {{hs \in [1..n -> {ContentHash[c] : c \in Contents}] :
               \A i, j \in 1..n : i # j => hs[i] # hs[j]} : n \in 0..(MaxDocs + 1)}

\* sha256("".join(sorted(doc_hashes)).encode()).hexdigest() of every such list,
\* evaluated once.
Commitment ==
    Table([hs \in HashLists |-> sha256_hexdigest(encode(join(CommitmentOrder(hs))))])

generate_commitment(dm) == Commitment[DocHashes(dm)]

DM_len(dm) == Len(dm.documents)

\* ------------------------------------------------------ EmbeddingGenerator
\* The model name the generator was constructed with.
model_name == "e5"

\* SentenceTransformer.encode is external: a deterministic map from a text to
\* a vector of fixed dimension.  The stand-in counts each character of the
\* Alphabet, so that "ab" and "ba" embed identically, "a" and "aa" are
\* parallel, "a" and "b" orthogonal, and "" is the zero vector.
Count(text, c) == Cardinality({i \in 1..Len(text) : CharAt(text, i) = c})

embed_text(text) == <<Count(text, "a"), Count(text, "b")>>

embed_batch(texts) == [i \in 1..Len(texts) |-> embed_text(texts[i])]

get_model_hash == sha256_hexdigest(encode(model_name))

\* ------------------------------------------------------------ VectorStore
\* A VectorStore is [embeddings |-> list of vectors, chunks |-> list].
NewVectorStore == [embeddings |-> <<>>, chunks |-> <<>>]

\* add_embeddings extending the stored lists instead of replacing them.
ExtendIndex(vs, embeddings, chunks) ==
    IF Len(embeddings) # Len(chunks)
    THEN [vs |-> vs, status |-> "raised", error |-> "ValueError"]
    ELSE [vs |-> [embeddings |-> vs.embeddings \o embeddings,
                  chunks |-> vs.chunks \o chunks],
          status |-> "ok", error |-> ""]

\* add_embeddings assigning the fields before it compares the lengths.
AssignThenValidate(vs, embeddings, chunks) ==
    [vs |-> [embeddings |-> embeddings, chunks |-> chunks],
     status |-> IF Len(embeddings) # Len(chunks) THEN "raised" ELSE "ok",
     error |-> IF Len(embeddings) # Len(chunks) THEN "ValueError" ELSE ""]

\* add_embeddings: the store afterwards, and whether ValueError was raised.
add_embeddings(vs, embeddings, chunks) ==
    IF Len(embeddings) # Len(chunks)
    THEN [vs |-> vs, status |-> "raised", error |-> "ValueError"]
    ELSE [vs |-> [embeddings |-> embeddings, chunks |-> chunks],
          status |-> "ok", error |-> ""]

Dot(u, v) == u[1] * v[1] + u[2] * v[2]

Sgn(x) == IF x > 0 THEN 1 ELSE IF x < 0 THEN -1 ELSE 0

\* _cosine_similarity: the score of vector v against the query is
\*   (v . q) / ((|v| + eps) * (|q| + eps)),  eps = 1e-8.
\* The factor of the query is the same positive number for every v, so a score
\* is kept as the pair [dot, normsq] of v . q and |v|^2, and scores are
\* compared exactly: a / (m + eps) < b / (n + eps) iff a*n - b*m + eps*(a - b) < 0,
\* where a*n and b*m are compared through their signed squares.
_cosine_similarity(query, vectors) ==
    [i \in 1..Len(vectors) |->
        [dot |-> Dot(vectors[i], query), normsq |-> Dot(vectors[i], vectors[i])]]

SimLess(x, y) ==
    LET l == Sgn(x.dot) * x.dot * x.dot * y.normsq
        r == Sgn(y.dot) * y.dot * y.dot * x.normsq
    IN  l < r \/ (l = r /\ x.dot < y.dot)

SimEq(x, y) == ~SimLess(x, y) /\ ~SimLess(y, x)

\* np.argsort(similarities): the default sort is not stable, so every
\* ordering of the positions 1..n with ascending scores is a possible result.
ArgsortOrder(sims, p) ==
    \A i \in 1..(Len(p) - 1) : ~SimLess(sims[p[i + 1]], sims[p[i]])

argsort(sims) ==
    {p \in [1..Len(sims) -> 1..Len(sims)] :
        /\ \A i, j \in 1..Len(sims) : i # j => p[i] # p[j]
        /\ ArgsortOrder(sims, p)}

\* [::-1] left out.
NotReversed(a) == a

\* a[::-1]
Reversed(a) == [i \in 1..Len(a) |-> a[Len(a) + 1 - i]]

\* a[-top_k:]
LastK(a, top_k) == PySlice(a, -top_k, Len(a))

\* VectorStore.search: the set of lists of chunks it can return.
search(vs, query_embedding, top_k) ==
    IF Len(vs.embeddings) = 0 THEN {<<>>}
    ELSE { LET top_indices == Reversed(LastK(p, top_k))
           IN  [i \in 1..Len(top_indices) |-> vs.chunks[top_indices[i]]] :
           p \in argsort(_cosine_similarity(query_embedding, vs.embeddings)) }

\* --------------------------------------------------------- ProofGenerator
\* "0" * n, by halves.
RECURSIVE Zeros(_)
Zeros(n) ==
    IF n = 0 THEN ""
    ELSE IF n = 1 THEN "0"
    ELSE Zeros(n \div 2) \o Zeros(n - n \div 2)

PlaceholderProof == Zeros(PLACEHOLDER_LEN)

\* zkrag_rust.generate_proof is external: whatever its inputs, it returns an
\* opaque hex string, which is not the placeholder.
RustProof(document_hashes, query_text, query_embedding, search_results, document_commitment, mhash, timestamp) == "a1b2c3"

\* generate_proof raising when the bindings are missing, instead of
\* returning the placeholder.
generate_proof_no_placeholder(rust_available, backend, document_hashes, query_text, query_embedding, search_results, document_commitment, mhash, timestamp) ==
    IF rust_available /\ backend = "ok"
    THEN [status |-> "ok", error |-> "",
          value |-> RustProof(document_hashes, query_text, query_embedding,
                              search_results, document_commitment, mhash, timestamp)]
    ELSE [status |-> "raised", error |-> "RuntimeError", value |-> ""]

\* ProofGenerator.generate_proof; backend is what the Rust call does when it
\* is reached: "ok" (returns a proof) or "fail" (raises).
generate_proof(rust_available, backend, document_hashes, query_text, query_embedding, search_results, document_commitment, mhash, timestamp) ==
    IF ~rust_available
    THEN [status |-> "ok", error |-> "", value |-> PlaceholderProof]
    ELSE IF backend = "ok"
    THEN [status |-> "ok", error |-> "",
          value |-> RustProof(document_hashes, query_text, query_embedding,
                              search_results, document_commitment, mhash, timestamp)]
    ELSE [status |-> "raised", error |-> "RuntimeError", value |-> ""]

\* ------------------------------------------------------------- PrivateRAG
\* _index_documents; backend is what embed_batch does when it is reached:
\* "ok", "raise" (the call raises) or "short" (it returns one vector too few).
BackendEmbeddings(backend, full) ==
    IF backend = "short" THEN SubSeq(full, 1, Len(full) - 1) ELSE full

IndexChunks(all_chunks, vs, backend) ==
    IF all_chunks = <<>> THEN [vs |-> vs, status |-> "ok", error |-> ""]
    ELSE IF backend = "raise"
    THEN [vs |-> vs, status |-> "raised", error |-> "EmbeddingError"]
    ELSE add_embeddings(vs,
             BackendEmbeddings(backend,
                 embed_batch([i \in 1..Len(all_chunks) |-> all_chunks[i].content])),
             all_chunks)

\* _index_documents returning without rebuilding the index.
IndexNothing(d, vs, backend) == [vs |-> vs, status |-> "ok", error |-> ""]

_index_documents(d, vs, backend) == IndexChunks(get_all_chunks(d), vs, backend)

\* _generate_answer: the placeholder answer, by its parts.
_generate_answer(question, chunks) ==
    IF chunks = <<>> THEN [text |-> "No relevant information found.", passages |-> <<>>]
    ELSE [text |-> "Based on relevant passages",
          passages |-> [i \in 1..Len(chunks) |-> chunks[i].content]]

\* The distinct elements of a list, as list(set(...)) gives them: in one of
\* the orders of the set.
SeqRange(s) == {s[i] : i \in 1..Len(s)}

Perms(S) == {p \in [1..Cardinality(S) -> S] : \A x \in S : \E i \in DOMAIN p : p[i] = x}

\* _generate_query_proof: the set of outcomes, one per order of doc_ids.
_generate_query_proof(d, rust_available, backend, query, query_embedding, results, timestamp) ==
    { IF \E i \in 1..Len(doc_ids) : get_document(d, doc_ids[i]) = <<>>
      THEN [status |-> "raised", error |-> "AttributeError", value |-> ""]
      ELSE generate_proof(rust_available, backend,
                          [i \in 1..Len(doc_ids) |-> get_document(d, doc_ids[i])[1].hash],
                          query, query_embedding,
                          [i \in 1..Len(results) |-> results[i].chunk_id],
                          generate_commitment(d), get_model_hash, timestamp) :
      doc_ids \in Perms(SeqRange([i \in 1..Len(results) |-> results[i].doc_id])) }

\* ---------------------------------------------------------------- state
VARIABLES
    dm,              \* PrivateRAG.doc_manager: a DocumentManager
    vector_store,    \* PrivateRAG.vector_store: a VectorStore
    rust_available,  \* PrivateRAG.proof_gen._rust_available
    outcome,         \* what the last call was given and what it returned or raised
    dm2,             \* a second DocumentManager, loaded with the same documents
    pending,         \* <<contents still to add to dm, contents still to add to dm2>>
    chunker          \* a call of _chunk_document: its arguments, its loop state

vars == <<dm, vector_store, rust_available, outcome, dm2, pending, chunker>>

\* No call of _chunk_document is being followed step by step.
NoChunker == [pc |-> "idle"]

Idle == [op |-> "init", status |-> "ok", error |-> "", value |-> ""]

Questions == {"a", "ab"}

MetadataArgs == {None, Dict({"tag"})}

BackendOutcomes == {"ok", "raise", "short"}

\* --------------------------------------------------- PrivateRAG operations
\* The pipeline after a call left the manager d and the index result indexed.
\* An add_document outcome keeps the number of documents before the call and
\* the id doc_manager.add_document returned; value is what the call returned.
Finish(d, indexed, call) ==
    /\ DM_len(d) <= MaxDocs
    /\ dm' = d
    /\ vector_store' = indexed.vs
    /\ outcome' = [call EXCEPT !.status = indexed.status, !.error = indexed.error,
                               !.value = IF indexed.status = "ok" THEN @ ELSE ""]
    /\ UNCHANGED <<rust_available, dm2, pending, chunker>>

AddDocumentIndex(added, content, backend) ==
    Finish(added.dm, _index_documents(added.dm, vector_store, backend),
           [op |-> "add_document", content |-> content, len_before |-> DM_len(dm),
            doc_id |-> added.doc_id, status |-> "", error |-> "",
            value |-> added.doc_id])

\* PrivateRAG.add_document(content, metadata)
AddDocument(content, metadata, backend) ==
    AddDocumentIndex(DM_add_document(dm, content, metadata), content, backend)

\* The file metadata add_document_from_file builds.
FileMetadata == Dict({"filename", "path", "added_at"})

\* The loop of load_documents over files, a list of [content, readable] in
\* glob order: the manager after the loop, or after the file that cannot
\* be read.
RECURSIVE LoadFiles(_, _)
LoadFiles(d, files) ==
    IF files = <<>> THEN [dm |-> d, status |-> "ok", error |-> ""]
    ELSE IF ~Head(files).readable THEN [dm |-> d, status |-> "raised", error |-> "OSError"]
    ELSE LoadFiles(DM_add_document(d, Head(files).content, FileMetadata).dm, Tail(files))

LoadDocumentsIndex(loaded, backend) ==
    Finish(loaded.dm,
           IF loaded.status = "raised"
           THEN [vs |-> vector_store, status |-> "raised", error |-> loaded.error]
           ELSE _index_documents(loaded.dm, vector_store, backend),
           [op |-> "load_documents", status |-> "", error |-> "", value |-> ""])

\* PrivateRAG.load_documents(directory); files is <<>> with exists = FALSE.
LoadDocuments(exists, files, backend) ==
    IF ~exists
    THEN Finish(dm, [vs |-> vector_store, status |-> "raised", error |-> "ValueError"],
                [op |-> "load_documents", status |-> "", error |-> "", value |-> ""])
    ELSE LoadDocumentsIndex(LoadFiles(dm, files), backend)

Respond(question, top_k, want_proof, timestamp, backend, results, proof) ==
    /\ outcome' =
         [op |-> "query", question |-> question, top_k |-> top_k,
          generate_proof |-> want_proof, embedded |-> TRUE, proof_backend |-> backend,
          results |-> results,
          status |-> proof.status, error |-> proof.error,
          value |-> IF proof.status = "raised" THEN <<>>
                    ELSE <<[answer |-> _generate_answer(question, results),
                            sources |-> results,
                            query |-> question,
                            proof |-> IF want_proof THEN <<proof.value>> ELSE <<>>,
                            timestamp |-> timestamp]>>]
    /\ UNCHANGED <<dm, vector_store, rust_available, dm2, pending, chunker>>

QueryEmbedded(question, query_embedding, top_k, want_proof, timestamp, backend) ==
    \E results \in search(vector_store, query_embedding, top_k) :
    \E proof \in IF want_proof
                 THEN _generate_query_proof(dm, rust_available, backend, question,
                                            query_embedding, results, timestamp)
                 ELSE {[status |-> "ok", error |-> "", value |-> ""]} :
        Respond(question, top_k, want_proof, timestamp, backend, results, proof)

\* PrivateRAG.query(question, top_k, generate_proof) at time timestamp;
\* backend is what the Rust proof call does when it is reached.
Query(question, top_k, want_proof, timestamp, backend) ==
    QueryEmbedded(question, embed_text(question), top_k, want_proof, timestamp, backend)

\* PrivateRAG.query when embed_text raises: the error leaves query at once.
QueryEmbedFails(question, top_k, want_proof) ==
    /\ outcome' =
         [op |-> "query", question |-> question, top_k |-> top_k,
          generate_proof |-> want_proof, embedded |-> FALSE, proof_backend |-> "ok",
          results |-> <<>>, status |-> "raised", error |-> "EmbeddingError",
          value |-> <<>>]
    /\ UNCHANGED <<dm, vector_store, rust_available, dm2, pending, chunker>>

InitRAG ==
    /\ dm = NewDocumentManager
    /\ vector_store = NewVectorStore
    /\ rust_available \in BOOLEAN
    /\ outcome = Idle
    /\ dm2 = NewDocumentManager
    /\ pending = <<<<>>, <<>>>>
    /\ chunker = NoChunker

\* A *.txt file of the directory: readable with some content, or not readable.
File == [content : Contents, readable : {TRUE}] \cup {[content |-> "", readable |-> FALSE]}

Files == UNION {[1..n -> File] : n \in 0..MaxFiles}

DoAddDocument ==
    \E content \in Contents, metadata \in MetadataArgs, backend \in BackendOutcomes :
        AddDocument(content, metadata, backend)

AllReadable(files) == \A i \in 1..Len(files) : files[i].readable

\* embed_batch is reached only when the directory exists and every file of
\* it was read.
DoLoadDocuments ==
    \/ LoadDocuments(FALSE, <<>>, "ok")
    \/ \E files \in Files, backend \in BackendOutcomes :
          /\ backend # "ok" => AllReadable(files)
          /\ LoadDocuments(TRUE, files, backend)

\* The Rust call is reached only with generate_proof and the bindings present.
DoQuery ==
    \E question \in Questions, top_k \in 0..MaxTopK, want_proof \in BOOLEAN,
       timestamp \in 1..MaxTime, backend \in {"ok", "fail"} :
        /\ backend = "fail" => (want_proof /\ rust_available)
        /\ Query(question, top_k, want_proof, timestamp, backend)

DoQueryEmbedFails ==
    \E question \in Questions, top_k \in 0..MaxTopK, want_proof \in BOOLEAN :
        QueryEmbedFails(question, top_k, want_proof)

Next == DoAddDocument \/ DoLoadDocuments \/ DoQuery \/ DoQueryEmbedFails

Spec == InitRAG /\ [][Next]_vars

\* ----------------------------------------------------- pipeline properties
HasContent(d, content) ==
    \E i \in 1..Len(d.documents) : d.documents[i].val.content = content

IdOfContent(d, content) ==
    d.documents[CHOOSE i \in 1..Len(d.documents) :
                    d.documents[i].val.content = content].key

\* C2: add_document of a content the manager already holds returns the id the
\* content is stored under, and leaves the document count, the commitment
\* and the chunk sequence stored for that id as they were.
C2_ReAddIdempotent ==
    [][(outcome'.op = "add_document" /\ HasContent(dm, outcome'.content)) =>
         /\ outcome'.doc_id = IdOfContent(dm, outcome'.content)
         /\ DM_len(dm') = DM_len(dm)
         /\ generate_commitment(dm') = generate_commitment(dm)
         /\ get_chunks(dm', outcome'.doc_id) = get_chunks(dm, outcome'.doc_id)]_vars

\* A content with a chunk was added again to a manager of two documents.
C2_Witness ==
    /\ outcome.op = "add_document"
    /\ outcome.len_before = 2
    /\ DM_len(dm) = 2
    /\ get_chunks(dm, outcome.doc_id) # <<>>

Indexed == 
    /\ vector_store.chunks = get_all_chunks(dm)
    /\ Len(vector_store.embeddings) = Len(vector_store.chunks)

AddSucceeded == outcome.op = "add_document" /\ outcome.status = "ok"

\* C7 as amended: there is no Loaded state after a successful add_document.
\* The call re-embeds every chunk and rebuilds the index before it returns,
\* so the pipeline is Indexed with the new document's chunks in the index;
\* a query against an index without embeddings returns no sources.
C7_AddDocumentReindexes ==
    /\ AddSucceeded => Indexed
    /\ (outcome.op = "query" /\ outcome.status = "ok" /\ Len(vector_store.embeddings) = 0)
           => outcome.value[1].sources = <<>>

\* A further add_document on an Indexed pipeline left two chunks in the index.
C7_Witness ==
    /\ AddSucceeded
    /\ outcome.len_before = 1
    /\ Len(vector_store.chunks) = 2

\* C7 as stated: a successful add_document leaves the pipeline Loaded, the
\* new document's chunks are not in the index.
C7_Original ==
    AddSucceeded =>
        \A i \in 1..Len(get_chunks(dm, outcome.doc_id)) :
            get_chunks(dm, outcome.doc_id)[i] \notin SeqRange(vector_store.chunks)

\* C8: a load_documents or add_document that raises leaves the document
\* store and the index unchanged, or the index reflecting the whole store.
C8_IngestionAtomic ==
    [][(outcome'.op \in {"add_document", "load_documents"} /\ outcome'.status = "raised")
         => \/ dm' = dm /\ vector_store' = vector_store
            \/ Indexed']_vars

SentinelProof(p) ==
    /\ Len(p) = PLACEHOLDER_LEN
    /\ \A i \in 1..Len(p) : CharAt(p, i) = "0"

\* C9: without the Rust bindings, a query that got its query embedding never
\* raises, and with generate_proof its proof field is the zero-filled
\* placeholder; without generate_proof the proof field is None.
C9_SentinelWithoutBackend ==
    (outcome.op = "query" /\ outcome.embedded) =>
        /\ (~rust_available /\ outcome.generate_proof) =>
              /\ outcome.status = "ok"
              /\ Len(outcome.value[1].proof) = 1
              /\ SentinelProof(outcome.value[1].proof[1])
        /\ ~outcome.generate_proof =>
              /\ outcome.status = "ok"
              /\ outcome.value[1].proof = <<>>

\* A query with generate_proof and top_k sources, on a pipeline without the
\* Rust bindings.
C9_Witness ==
    /\ outcome.op = "query"
    /\ ~rust_available
    /\ outcome.generate_proof
    /\ outcome.status = "ok"
    /\ outcome.top_k = 2
    /\ Len(outcome.value[1].sources) = 2
    /\ SentinelProof(outcome.value[1].proof[1])

\* C10: when the Rust call fails, query returns a response with the answer
\* and the ranked sources and without a proof; it does not raise.
C10_ProofFailureStructured ==
    (outcome.op = "query" /\ outcome.embedded /\ outcome.generate_proof
        /\ rust_available /\ outcome.proof_backend = "fail") =>
        /\ outcome.status = "ok"
        /\ outcome.value[1].sources = outcome.results
        /\ outcome.value[1].proof = <<>>

\* ------------------------------------------- two managers, two load orders
InitPerm ==
    /\ dm = NewDocumentManager
    /\ dm2 = NewDocumentManager
    /\ vector_store = NewVectorStore
    /\ rust_available = FALSE
    /\ outcome = Idle
    /\ chunker = NoChunker
    /\ \E S \in SUBSET Contents :
         /\ Cardinality(S) <= MaxDocs + 1
         /\ \E p \in Perms(S), q \in Perms(S) : pending = <<p, q>>

AddFirst ==
    /\ pending[1] # <<>>
    /\ dm' = DM_add_document(dm, Head(pending[1]), None).dm
    /\ pending' = <<Tail(pending[1]), pending[2]>>
    /\ UNCHANGED <<dm2, vector_store, rust_available, outcome, chunker>>

AddSecond ==
    /\ pending[1] = <<>>
    /\ pending[2] # <<>>
    /\ dm2' = DM_add_document(dm2, Head(pending[2]), None).dm
    /\ pending' = <<pending[1], Tail(pending[2])>>
    /\ UNCHANGED <<dm, vector_store, rust_available, outcome, chunker>>

NextPerm == AddFirst \/ AddSecond

SpecPerm == InitPerm /\ [][NextPerm]_vars

BothLoaded == pending = <<<<>>, <<>>>>

\* C1: two managers loaded with two permutations of the same document set
\* have identical commitments.
C1_CommitmentOrderIndependent ==
    BothLoaded => generate_commitment(dm) = generate_commitment(dm2)

\* Both managers hold the same two or more documents in different orders.
C1_Witness ==
    /\ BothLoaded
    /\ DM_len(dm) >= 2
    /\ DictKeys(dm.documents) # DictKeys(dm2.documents)

\* ------------------------------------------------- search on a built index
\* The embeddings the model gives the chunks of the Corpus.  The embedding
\* model is external, so any vectors can be the embeddings of distinct texts;
\* these give equal, parallel, oblique and zero vectors, and scores that are
\* positive, zero and negative.
Vectors == {<<0, 0>>, <<1, 0>>, <<2, 0>>, <<-1, 1>>}

RECURSIVE LoadCorpus(_, _)
LoadCorpus(d, n) ==
    IF n = 0 THEN d
    ELSE DM_add_document(LoadCorpus(d, n - 1), Bs(n), None).dm

\* A pipeline whose n documents were indexed with the given embeddings.
IndexedWith(d, embeddings) ==
    /\ dm = d
    /\ vector_store = add_embeddings(NewVectorStore, embeddings, get_all_chunks(d)).vs

InitSearch ==
    /\ \E n \in 0..MaxIndex : \E embeddings \in [1..n -> Vectors] :
          IndexedWith(LoadCorpus(NewDocumentManager, n), embeddings)
    /\ rust_available = FALSE
    /\ outcome = Idle
    /\ dm2 = NewDocumentManager
    /\ pending = <<<<>>, <<>>>>
    /\ chunker = NoChunker

\* VectorStore.search(query_embedding, top_k), called on the store directly.
Search(query_embedding, top_k) ==
    /\ \E results \in search(vector_store, query_embedding, top_k) :
          outcome' = [op |-> "search", query_embedding |-> query_embedding,
                      top_k |-> top_k, status |-> "ok", error |-> "",
                      value |-> results]
    /\ UNCHANGED <<dm, vector_store, rust_available, dm2, pending, chunker>>

DoSearch == \E query_embedding \in Vectors, top_k \in 0..MaxTopK :
                Search(query_embedding, top_k)

DoQueryNoProof ==
    \E question \in Questions, top_k \in 0..MaxTopK, timestamp \in 1..MaxTime :
        Query(question, top_k, FALSE, timestamp, "ok")

NextSearch == DoSearch \/ DoQueryNoProof

SpecSearch == InitSearch /\ [][NextSearch]_vars

\* ---------------------------------------------------- search properties
IndexSize == Len(vector_store.embeddings)

\* The index positions of the chunks of a result list.
Positions(results) ==
    [i \in 1..Len(results) |->
        CHOOSE j \in 1..Len(vector_store.chunks) : vector_store.chunks[j] = results[i]]

FromIndex(results) ==
    \A i \in 1..Len(results) : results[i] \in SeqRange(vector_store.chunks)

\* pos lists min(top_k, n) distinct positions, scores descending, and no
\* position left out scores higher than a listed one.
RankedTopK(sims, pos, top_k) ==
    /\ Len(pos) = min(top_k, Len(sims))
    /\ \A i, j \in 1..Len(pos) : i # j => pos[i] # pos[j]
    /\ \A i \in 1..(Len(pos) - 1) : ~SimLess(sims[pos[i]], sims[pos[i + 1]])
    /\ \A j \in (1..Len(sims)) \ SeqRange(pos) :
           \A i \in 1..Len(pos) : ~SimLess(sims[pos[i]], sims[j])

Ranked(query_embedding, results, top_k) ==
    /\ FromIndex(results)
    /\ RankedTopK(_cosine_similarity(query_embedding, vector_store.embeddings),
                  Positions(results), top_k)

\* C4: search never returns more than min(top_k, index size) results; with
\* top_k = 0 and with an empty index it returns the empty list.
C4_SearchBounded ==
    outcome.op = "search" =>
        Len(outcome.value) <= min(outcome.top_k, IndexSize)

\* C5: for top_k >= 1 and a non-empty index, search returns exactly
\* min(top_k, index size) chunks, those of highest similarity, most similar
\* first; query puts them in RAGResponse.sources in that order.
C5_TopKDescending ==
    /\ (outcome.op = "search" /\ outcome.top_k >= 1 /\ IndexSize >= 1) =>
           Ranked(outcome.query_embedding, outcome.value, outcome.top_k)
    /\ (outcome.op = "query" /\ outcome.status = "ok" /\ outcome.top_k >= 1
            /\ IndexSize >= 1) =>
           Ranked(embed_text(outcome.question), outcome.value[1].sources, outcome.top_k)

StrictlyRanked(sims, pos) ==
    /\ \A i \in 1..(Len(pos) - 1) : SimLess(sims[pos[i + 1]], sims[pos[i]])
    /\ \A j \in (1..Len(sims)) \ SeqRange(pos) :
           \A i \in 1..Len(pos) : SimLess(sims[j], sims[pos[i]])

\* A query for two sources on an index of three entries whose scores all
\* differ: the sources are the two best, the better one first.
C5_Witness ==
    /\ outcome.op = "query"
    /\ outcome.status = "ok"
    /\ outcome.top_k = 2
    /\ IndexSize = 3
    /\ Len(outcome.value[1].sources) = 2
    /\ StrictlyRanked(_cosine_similarity(embed_text(outcome.question),
                                         vector_store.embeddings),
                      Positions(outcome.value[1].sources))

PlaceOf(pos, j) == CHOOSE i \in 1..Len(pos) : pos[i] = j

TiesInInsertionOrder(sims, pos) ==
    \A i, j \in 1..Len(sims) :
        (i < j /\ SimEq(sims[i], sims[j]) /\ j \in SeqRange(pos)) =>
            /\ i \in SeqRange(pos)
            /\ PlaceOf(pos, i) < PlaceOf(pos, j)

\* C6: entries of equal similarity are returned in insertion order: the
\* lower index before the higher one when both are returned, and the lower
\* one when only one of them is.
C6_TiesInInsertionOrder ==
    (outcome.op = "search" /\ outcome.top_k >= 1) =>
        TiesInInsertionOrder(
            _cosine_similarity(outcome.query_embedding, vector_store.embeddings),
            Positions(outcome.value))

\* ------------------------------------------ _chunk_document, step by step
\* add_document has stored doc (documents.py:61) and calls
\* _chunk_document(doc, chunk_size, overlap): chunks = [], start = 0,
\* chunk_id = 0.
ChunkerStart(doc, chunk_size, overlap) ==
    /\ dm = [NewDocumentManager EXCEPT !.documents = DictSet(<<>>, doc.id, doc)]
    /\ chunker = [pc |-> "loop", doc |-> doc,
                  chunk_size |-> chunk_size, overlap |-> overlap,
                  st |-> [start |-> 0, chunk_id |-> 0, chunks |-> <<>>]]

HashedDocument(content, doc_hash) ==
    Document(DocId(doc_hash), content, EmptyDict, doc_hash)

InitChunk ==
    /\ \E content \in Texts(MaxTextLen),
          chunk_size \in 1..MaxChunkSize, overlap \in 0..MaxChunkSize :
          ChunkerStart(HashedDocument(content, sha256_hexdigest(encode(content))),
                       chunk_size, overlap)
    /\ vector_store = NewVectorStore
    /\ rust_available = FALSE
    /\ outcome = Idle
    /\ dm2 = NewDocumentManager
    /\ pending = <<<<>>, <<>>>>

\* One iteration of the while loop; at most MaxChunks iterations are followed.
ChunkStep ==
    /\ chunker.pc = "loop"
    /\ LoopCondition(chunker.doc.content, chunker.st)
    /\ chunker.st.chunk_id < MaxChunks
    /\ chunker' = [chunker EXCEPT !.st =
                      ChunkBody(chunker.doc.id, chunker.doc.content,
                                chunker.chunk_size, chunker.overlap, @)]
    /\ UNCHANGED <<dm, vector_store, rust_available, outcome, dm2, pending>>

\* The loop exits and self.chunks[doc.id] = chunks.
ChunkStore ==
    /\ chunker.pc = "loop"
    /\ ~LoopCondition(chunker.doc.content, chunker.st)
    /\ dm' = StoreChunks(dm, chunker.doc.id, chunker.st.chunks)
    /\ chunker' = [chunker EXCEPT !.pc = "done"]
    /\ UNCHANGED <<vector_store, rust_available, outcome, dm2, pending>>

\* _chunk_document is called again with the same document and configuration:
\* chunks = [], start = 0, chunk_id = 0.
ChunkAgain ==
    /\ chunker.pc = "done"
    /\ chunker' = [chunker EXCEPT !.pc = "loop",
                                  !.st = [start |-> 0, chunk_id |-> 0, chunks |-> <<>>]]
    /\ UNCHANGED <<dm, vector_store, rust_available, outcome, dm2, pending>>

NextChunk == ChunkStep \/ ChunkStore \/ ChunkAgain

SpecChunk == InitChunk /\ [][NextChunk]_vars

\* A call that has started runs on: the loop takes its next iteration and
\* the statement after the loop is executed.  Nothing makes a caller call
\* again.
SpecChunkFair == SpecChunk /\ WF_vars(ChunkStep) /\ WF_vars(ChunkStore)

\* --------------------------------------------------- chunking properties
ChunkingDone == chunker.pc = "done"

OverlapInRange == 0 < chunker.overlap /\ chunker.overlap < chunker.chunk_size

\* The chunk texts in chunk order, the first overlap characters of every
\* chunk but the first removed.
WithoutOverlaps(chunks, overlap) ==
    [i \in 1..Len(chunks) |->
        IF i = 1 THEN chunks[i].content
        ELSE PySlice(chunks[i].content, overlap, Len(chunks[i].content))]

ChunksCover(content, chunks, overlap) ==
    /\ \A i \in 1..Len(chunks) :
          /\ chunks[i].chunk_id = i - 1
          /\ 0 <= chunks[i].start_idx
          /\ chunks[i].start_idx < chunks[i].end_idx
          /\ chunks[i].end_idx <= Len(content)
    /\ join(WithoutOverlaps(chunks, overlap)) = content

\* C3: with 0 < overlap < chunk_size, every chunk _chunk_document stores has
\* 0 <= start < end <= len(content), and the chunk texts in chunk order,
\* the overlapping prefix of each later chunk removed, concatenate to the
\* content.
C3_ChunksCoverContent ==
    (ChunkingDone /\ OverlapInRange) =>
        ChunksCover(chunker.doc.content, get_chunks(dm, chunker.doc.id),
                    chunker.overlap)

\* A text was split into three or more chunks that overlap by two characters.
C3_Witness ==
    /\ ChunkingDone
    /\ chunker.overlap = 2
    /\ chunker.chunk_size = 3
    /\ Len(get_chunks(dm, chunker.doc.id)) >= 3

OverlapTooLarge == chunker.overlap >= chunker.chunk_size

\* C11: _chunk_document called with overlap >= chunk_size is rejected as a
\* configuration error: it runs no iteration of the loop and stores no
\* chunks.
C11_InvalidConfigRejected ==
    OverlapTooLarge =>
        /\ chunker.st.chunks = <<>>
        /\ ~DictHas(dm.chunks, chunker.doc.id)

\* The step is one iteration of the loop.
IterationTaken ==
    /\ chunker.pc = "loop"
    /\ chunker'.pc = "loop"
    /\ chunker'.st.chunk_id = chunker.st.chunk_id + 1

\* The step stores the chunks of a call that is not the first on the document.
StoredAgain ==
    /\ chunker.pc = "loop"
    /\ chunker'.pc = "done"
    /\ DictHas(dm.chunks, chunker.doc.id)

\* C12: with 0 < overlap < chunk_size, every iteration of the loop moves
\* start strictly forward and not beyond len(content), a call that has
\* started reaches the end of the loop and stores its chunks, and a second
\* call on the same text stores the same chunk sequence as the first.
C12_ChunkLoopTerminates ==
    /\ [][(OverlapInRange /\ IterationTaken) =>
            /\ chunker'.st.start > chunker.st.start
            /\ chunker'.st.start <= Len(chunker.doc.content)]_vars
    /\ [][(OverlapInRange /\ StoredAgain) =>
            get_chunks(dm', chunker.doc.id) = get_chunks(dm, chunker.doc.id)]_vars
    /\ (OverlapInRange /\ chunker.pc = "loop") ~> ChunkingDone

\* A second call on a text of three or more chunks has produced the chunks
\* the first call stored.
C12_Witness ==
    /\ OverlapInRange
    /\ chunker.pc = "loop"
    /\ DictHas(dm.chunks, chunker.doc.id)
    /\ Len(chunker.st.chunks) >= 3
    /\ chunker.st.chunks = get_chunks(dm, chunker.doc.id)

\* The one chunk that spans the whole content of doc.
WholeTextChunk(doc) ==
    [doc_id |-> doc.id, chunk_id |-> 0, content |-> doc.content,
     start_idx |-> 0, end_idx |-> Len(doc.content)]

\* C13: chunking the empty text appends and stores no chunk; chunking a text
\* of length L, 0 < L <= chunk_size, appends at most one chunk and stores
\* exactly one, with chunk index 0 and spanning [0, L).
C13_ChunkCountEdgeCases ==
    /\ Len(chunker.doc.content) = 0 =>
          /\ chunker.st.chunks = <<>>
          /\ ChunkingDone => get_chunks(dm, chunker.doc.id) = <<>>
    /\ (0 < Len(chunker.doc.content) /\ Len(chunker.doc.content) <= chunker.chunk_size) =>
          /\ Len(chunker.st.chunks) <= 1
          /\ ChunkingDone =>
                get_chunks(dm, chunker.doc.id) = <<WholeTextChunk(chunker.doc)>>

\* A text exactly chunk_size long was stored as one chunk.
C13_Witness ==
    /\ ChunkingDone
    /\ Len(chunker.doc.content) = 3
    /\ chunker.chunk_size = 3
    /\ get_chunks(dm, chunker.doc.id) = <<WholeTextChunk(chunker.doc)>>

\* ------------------------------------------------ a VectorStore on its own
\* The embeddings and the chunk lists add_embeddings is called with: any
\* list of up to MaxIndex vectors, and the chunks of the first m documents
\* of the Corpus, whether or not the two have the same length.
StoreVectors == {<<1, 0>>, <<-1, 1>>}

CorpusChunks ==
    Table([m \in 0..MaxIndex |-> get_all_chunks(LoadCorpus(NewDocumentManager, m))])

InitStore ==
    /\ vector_store = NewVectorStore
    /\ dm = NewDocumentManager
    /\ rust_available = FALSE
    /\ outcome = Idle
    /\ dm2 = NewDocumentManager
    /\ pending = <<<<>>, <<>>>>
    /\ chunker = NoChunker

Rebuilt(added, embeddings, chunks) ==
    /\ vector_store' = added.vs
    /\ outcome' = [op |-> "add_embeddings", embeddings |-> embeddings,
                   chunks |-> chunks, status |-> added.status,
                   error |-> added.error, value |-> ""]
    /\ UNCHANGED <<dm, rust_available, dm2, pending, chunker>>

\* VectorStore.add_embeddings(embeddings, chunks)
AddEmbeddings(embeddings, chunks) ==
    Rebuilt(add_embeddings(vector_store, embeddings, chunks), embeddings, chunks)

DoAddEmbeddings ==
    \E n \in 0..MaxIndex, m \in 0..MaxIndex : \E embeddings \in [1..n -> StoreVectors] :
        AddEmbeddings(embeddings, CorpusChunks[m])

NextStore == DoAddEmbeddings \/ DoSearch

SpecStore == InitStore /\ [][NextStore]_vars

\* C14: add_embeddings with as many embeddings as chunks makes the index
\* exactly the given embeddings and chunks; with different numbers it raises
\* and leaves embeddings and chunks as they were; search leaves the index
\* as it was.
C14_RebuildReplacesOrFails ==
    /\ [][outcome'.op = "add_embeddings" =>
            IF Len(outcome'.embeddings) = Len(outcome'.chunks)
            THEN /\ outcome'.status = "ok"
                 /\ vector_store' = [embeddings |-> outcome'.embeddings,
                                     chunks |-> outcome'.chunks]
            ELSE /\ outcome'.status = "raised"
                 /\ outcome'.error = "ValueError"
                 /\ vector_store' = vector_store]_vars
    /\ [][outcome'.op = "search" => vector_store' = vector_store]_vars

\* A rebuild with two embeddings for one chunk raised on an index of two
\* entries, which is still there.
C14_Witness ==
    /\ outcome.op = "add_embeddings"
    /\ outcome.status = "raised"
    /\ Len(outcome.embeddings) = 2
    /\ Len(outcome.chunks) = 1
    /\ Len(vector_store.embeddings) = 2
    /\ Len(vector_store.chunks) = 2

\* ------------------------------------- add_document calls that all succeed
\* PrivateRAG.add_document with an embedding backend that works.
DoAddDocumentOk ==
    \E content \in Contents, metadata \in MetadataArgs :
        AddDocument(content, metadata, "ok")

NextAdds == DoAddDocumentOk \/ DoQuery

SpecAdds == InitRAG /\ [][NextAdds]_vars

\* The chunk is one of the chunks the store holds for a document it holds.
InStore(chunk) ==
    /\ DictHas(dm.documents, chunk.doc_id)
    /\ chunk \in SeqRange(get_chunks(dm, chunk.doc_id))

\* C15: when every add_document call so far succeeded, the index holds one
\* embedding per chunk, its chunks are doc_manager.get_all_chunks(), and
\* every chunk a query got from search belongs to a document of the store.
C15_IndexMatchesStore ==
    /\ Indexed
    /\ (outcome.op = "query" /\ outcome.embedded) =>
           \A i \in 1..Len(outcome.results) : InStore(outcome.results[i])

\* Identical content was added again to a store of two documents, one of
\* them with empty content.
C15_Witness ==
    /\ AddSucceeded
    /\ outcome.len_before = 2
    /\ DM_len(dm) = 2
    /\ HasContent(dm, "")
    /\ Len(vector_store.embeddings) = 1
====
